---- MODULE Spec2Model ----
(***************************************************************************)
(* probably_filters: a counting bloom filter (src/src/bloom/mod.rs) and a  *)
(* cuckoo filter (src/src/cuckoo/mod.rs).                                  *)
(*                                                                         *)
(* A key is represented by what the filters read of it: its digests.  For  *)
(* the counting bloom filter an entry is the vector of its seeded hashes   *)
(* (entry[seed] is T::with_seed(seed) run over the bytes), so letting the  *)
(* entry range over all vectors covers every hash assignment.              *)
(*                                                                         *)
(* Machine words are naturals below 2^USIZE_BITS; the bitwise operators    *)
(* are computed bit by bit and shifts drop the bits that leave the word.   *)
(* The word width is scaled down from the 64 bits of the target.           *)
(*                                                                         *)
(* Specifications:                                                         *)
(*   BloomSpec        any calls, any entries, on a counting bloom filter   *)
(*   BloomRunSpec     a counting bloom filter used with one entry only     *)
(*   ConstructSpec    the constructor of the counting bloom filter alone   *)
(*   CuckooSpec       any calls, any keys, on a cuckoo filter              *)
(*   CuckooWatchSpec  the same, with one key's successful calls counted    *)
(*   CuckooFillSpec   a cuckoo filter filled with keys and emptied again   *)
(***************************************************************************)
EXTENDS Integers, Sequences, FiniteSets, TLC

\* ------------------------------------------------------------------ bounds
\* width of usize in bits (scaled down)
USIZE_BITS == 4
\* largest counter array explored, in bits (words * USIZE_BITS)
MaxArrayBits == 8
\* largest num_counters / num_hashes handed to the constructor
MaxCounters == 8
MaxHashes == 2
\* raw hash values are drawn from 0 .. HashBound-1
HashBound == 4
\* a run add(x)^n is tracked call by call up to n = counter_max + MaxExtra
MaxExtra == 2

\* the cuckoo filter's constructor is handed bin counts 0 .. MaxBinCount,
\* entries_per_bin 0 .. MaxEntries and max_kicks 0 .. MaxKicks, and tables of
\* at most MaxSlots slots are explored
MaxBinCount == 3
MaxEntries == 2
MaxKicks == 3
MaxSlots == 4
\* fingerprints are drawn from 0 .. MaxFp-1, raw hashes from 0 .. CfHashBound-1
MaxFp == 2
CfHashBound == 3

VARIABLES
    \* CountingBloomFilter fields
    counter_bins, counter_max, counters_per_bin, bits_per_counter, n_hashes,
    \* the last call on the counting bloom filter and the array before it
    cbf_last, old_bins,
    \* BloomRunSpec: the one entry x in use, and the calls so far while they
    \* are add(x)^n remove(x)^m
    run,
    \* CuckooFilter fields; capacity is Vec::capacity() of every bin
    bins, capacity, max_kicks,
    \* the hash of each fingerprint's bytes (Self::hash(&fingerprint.to_ne_bytes()))
    fp_hash,
    \* the last call on the cuckoo filter and the table before it
    cf_last, cf_old,
    \* CuckooWatchSpec: one key and its successful adds less successful removes;
    \* CuckooFillSpec: the keys added so far and the removes still to come
    watch

cbf_vars == <<counter_bins, counter_max, counters_per_bin, bits_per_counter,
              n_hashes, cbf_last, old_bins, run>>
cf_vars == <<bins, capacity, max_kicks, fp_hash, cf_last, cf_old, watch>>
vars == <<cbf_vars, cf_vars>>

\* no cuckoo filter has been constructed
CfAbsent ==
    /\ bins = <<>> /\ capacity = 0 /\ max_kicks = 0 /\ fp_hash = <<>>
    /\ cf_last = [op |-> "none"] /\ cf_old = <<>> /\ watch = <<>>

\* no counting bloom filter has been constructed
CbfAbsent ==
    /\ counter_bins = <<>> /\ counter_max = 0 /\ counters_per_bin = 0
    /\ bits_per_counter = 0 /\ n_hashes = 0
    /\ cbf_last = [op |-> "none"] /\ old_bins = <<>> /\ run = [phase |-> "off"]

\* ------------------------------------------------------- machine word ops
RECURSIVE Pow2From(_)
Pow2From(n) == IF n = 0 THEN 1 ELSE 2 * Pow2From(n - 1)

\* the powers of two, tabulated once
Pow2Table == [n \in 0 .. USIZE_BITS |-> Pow2From(n)]
Pow2(n) == Pow2Table[n]

WordMod == Pow2(USIZE_BITS)
Words == 0 .. (WordMod - 1)

Bit(w, i) == (w \div Pow2(i)) % 2

RECURSIVE BitAndFrom(_, _, _)
BitAndFrom(a, b, i) ==
    IF i = USIZE_BITS THEN 0
    ELSE Bit(a, i) * Bit(b, i) * Pow2(i) + BitAndFrom(a, b, i + 1)

RECURSIVE BitOrFrom(_, _, _)
BitOrFrom(a, b, i) ==
    IF i = USIZE_BITS THEN 0
    ELSE (IF Bit(a, i) + Bit(b, i) > 0 THEN Pow2(i) ELSE 0) + BitOrFrom(a, b, i + 1)

\* the bit-by-bit results, tabulated once for all pairs of words
BitAndTable == [a \in Words |-> [b \in Words |-> BitAndFrom(a, b, 0)]]
BitOrTable == [a \in Words |-> [b \in Words |-> BitOrFrom(a, b, 0)]]

\* a & b
BitAnd(a, b) == BitAndTable[a][b]

\* a | b
BitOr(a, b) == BitOrTable[a][b]

\* !a
BitNot(a) == (WordMod - 1) - a

\* a << s, for s < USIZE_BITS: the bits shifted out of the word are lost
Shl(a, s) == (a * Pow2(s)) % WordMod

\* a >> s
Shr(a, s) == a \div Pow2(s)

\* ------------------------------------------------- counting bloom filter
\* mutant: the full-width case is not told apart, and the shift amount wraps
calc_max_counter_shift(n_bits) == Shl(1, n_bits % USIZE_BITS) - 1

calc_max_counter(n_bits) ==
    IF n_bits = USIZE_BITS THEN BitNot(0) ELSE Pow2(n_bits) - 1

div_ceil(a, b) == (a + b - 1) \div b

\* Result of the constructor: the error kind, or the fields of the filter.
\* usize::BITS % 0 is a division by zero, which panics.
with_bits_per_counter(num_counters, num_hashes, bits) ==
    IF bits > USIZE_BITS THEN [kind |-> "BitsPerCounterTooLarge"]
    ELSE IF bits = 0 THEN [kind |-> "panic"]
    ELSE IF USIZE_BITS % bits # 0 THEN [kind |-> "BitsPerCounterUnaligned"]
    ELSE IF num_counters = 0 THEN [kind |-> "InvalidBinCount"]
    ELSE IF num_hashes = 0 \/ num_hashes > num_counters
         THEN [kind |-> "InvalidHashCount"]
    ELSE LET cpb == USIZE_BITS \div bits
             num_bins == div_ceil(num_counters, cpb)
         IN  [kind |-> "Ok",
              counter_bins |-> [b \in 0 .. (num_bins - 1) |-> 0],
              counter_max |-> calc_max_counter(bits),
              counters_per_bin |-> cpb,
              bits_per_counter |-> bits,
              n_hashes |-> num_hashes]

NumBins == Cardinality(DOMAIN counter_bins)

\* offsets reads a hash only through hash % NumBins and hash % counters_per_bin:
\* the hashes below NumBins * counters_per_bin give every pair it can compute
HashPeriod == NumBins * counters_per_bin
HashVals == 0 .. ((IF HashPeriod < HashBound THEN HashPeriod ELSE HashBound) - 1)
Seeds == 0 .. (n_hashes - 1)
\* the entries, each given by its digest under every seed
Entries == [Seeds -> HashVals]

\* T::with_seed(seed), write(bytes), finish()
Hash(entry, seed) == entry[seed]

offsets(hash) ==
    LET bitshift == (hash % counters_per_bin) * bits_per_counter
    IN  [bin |-> hash % NumBins,
         bitshift |-> bitshift,
         counter_mask |-> Shl(counter_max, bitshift)]

\* mutant: the word is always read from the array, staged or not
StagedWord_unstaged(updates, bin) == counter_bins[bin]

\* the word of a bin as the call sees it: the staged value if there is one
StagedWord(updates, bin) ==
    IF bin \in DOMAIN updates THEN updates[bin] ELSE counter_bins[bin]

\* (counter_mask & word) >> bitshift
ReadCounter(word, o) == Shr(BitAnd(o.counter_mask, word), o.bitshift)

\* mutant: the counter field is not cleared before the new value is or-ed in
WriteCounter_no_clear(word, o, counter) ==
    BitOr(word, Shl(counter, o.bitshift))

\* (word & !counter_mask) | (counter << bitshift)
WriteCounter(word, o, counter) ==
    BitOr(BitAnd(word, BitNot(o.counter_mask)), Shl(counter, o.bitshift))

Stage(updates, bin, word) ==
    [b \in (DOMAIN updates) \cup {bin} |-> IF b = bin THEN word ELSE updates[b]]

NoUpdates == [b \in {} |-> 0]

\* mutant: only the lowest staged bin is written back
Commit_lowest_bin(updates) ==
    [b \in DOMAIN counter_bins |->
        IF b \in DOMAIN updates /\ (\A c \in DOMAIN updates : b <= c)
        THEN updates[b] ELSE counter_bins[b]]

\* for (bin, new_val) in updates { self.counter_bins[bin] = new_val }
Commit(updates) ==
    [b \in DOMAIN counter_bins |->
        IF b \in DOMAIN updates THEN updates[b] ELSE counter_bins[b]]

\* mutant: the saturation test is gone
IsSaturated_never(counter) == FALSE

\* mutant: the saturation test fires one increment early
IsSaturated_early(counter) == counter + 1 >= counter_max

\* if counter == self.counter_max { return false }
IsSaturated(counter) == counter = counter_max

\* mutant: the zero test is gone
IsZero_never(counter) == FALSE

\* if counter == 0 { return false }
IsZero(counter) == counter = 0

\* the staging loop of add, from hash number seed on
RECURSIVE AddLoop(_, _, _)
AddLoop(entry, seed, updates) ==
    IF seed = n_hashes THEN [ok |-> TRUE, updates |-> updates]
    ELSE LET o == offsets(Hash(entry, seed))
             word == StagedWord(updates, o.bin)
             counter == ReadCounter(word, o)
         IN  IF IsSaturated(counter)
             THEN [ok |-> FALSE, updates |-> updates]
             ELSE AddLoop(entry, seed + 1,
                          Stage(updates, o.bin, WriteCounter(word, o, counter + 1)))

\* mutant: the staged words are written back even when the call is refused
AddOutcome_partial(staged) ==
    [ret |-> staged.ok, bins |-> Commit(staged.updates)]

AddOutcome(staged) ==
    IF staged.ok THEN [ret |-> TRUE, bins |-> Commit(staged.updates)]
    ELSE [ret |-> FALSE, bins |-> counter_bins]

cbf_add(entry) == AddOutcome(AddLoop(entry, 0, NoUpdates))

\* the staging loop of remove, from hash number seed on
RECURSIVE RemoveLoop(_, _, _)
RemoveLoop(entry, seed, updates) ==
    IF seed = n_hashes THEN [ok |-> TRUE, updates |-> updates]
    ELSE LET o == offsets(Hash(entry, seed))
             word == StagedWord(updates, o.bin)
             counter == ReadCounter(word, o)
         IN  IF IsZero(counter)
             THEN [ok |-> FALSE, updates |-> updates]
             ELSE RemoveLoop(entry, seed + 1,
                             Stage(updates, o.bin, WriteCounter(word, o, counter - 1)))

RemoveOutcome(staged) ==
    IF staged.ok THEN [ret |-> TRUE, bins |-> Commit(staged.updates)]
    ELSE [ret |-> FALSE, bins |-> counter_bins]

cbf_remove(entry) == RemoveOutcome(RemoveLoop(entry, 0, NoUpdates))

\* the counter a digest addresses, read from the array itself
CounterOf(entry, seed) ==
    LET o == offsets(Hash(entry, seed))
    IN  ReadCounter(counter_bins[o.bin], o)

cbf_contains(entry) == \A seed \in Seeds : CounterOf(entry, seed) > 0

\* mutant: the estimate only tells presence
cbf_estimate_flag(entry) == IF cbf_contains(entry) THEN 1 ELSE 0

\* .min().unwrap_or_default()
cbf_estimate(entry) ==
    IF Seeds = {} THEN 0
    ELSE CHOOSE m \in {CounterOf(entry, s) : s \in Seeds} :
             \A s \in Seeds : m <= CounterOf(entry, s)

\* ---------------------------------------------------------------- actions
NoRun == [phase |-> "off", entry |-> <<>>, adds |-> 0, rems |-> 0]

\* the filter after a successful construction
CbfConstructed ==
    \E num_counters \in 0 .. MaxCounters, num_hashes \in 0 .. MaxHashes,
       bits \in 0 .. (USIZE_BITS + 1) :
        LET f == with_bits_per_counter(num_counters, num_hashes, bits)
        IN  /\ f.kind = "Ok"
            /\ Cardinality(DOMAIN f.counter_bins) * USIZE_BITS <= MaxArrayBits
            /\ counter_bins = f.counter_bins
            /\ counter_max = f.counter_max
            /\ counters_per_bin = f.counters_per_bin
            /\ bits_per_counter = f.bits_per_counter
            /\ n_hashes = f.n_hashes
            /\ cbf_last = [op |-> "new", entry |-> [s \in 0 .. (f.n_hashes - 1) |-> 0],
                           ret |-> TRUE, val |-> 0, follows_add |-> FALSE]
            /\ old_bins = f.counter_bins
            /\ CfAbsent

InitBloom == CbfConstructed /\ run = NoRun

CbfConfigUnchanged ==
    UNCHANGED <<counter_max, counters_per_bin, bits_per_counter, n_hashes, cf_vars>>

\* the call before this one was an add of the same entry that returned true
FollowsAdd(entry) ==
    cbf_last.op = "add" /\ cbf_last.ret /\ cbf_last.entry = entry

Add(entry) ==
    LET r == cbf_add(entry)
    IN  /\ counter_bins' = r.bins
        /\ old_bins' = counter_bins
        /\ cbf_last' = [op |-> "add", entry |-> entry, ret |-> r.ret, val |-> 0,
                        follows_add |-> FollowsAdd(entry)]
        /\ CbfConfigUnchanged

Remove(entry) ==
    LET r == cbf_remove(entry)
    IN  /\ counter_bins' = r.bins
        /\ old_bins' = counter_bins
        /\ cbf_last' = [op |-> "remove", entry |-> entry, ret |-> r.ret, val |-> 0,
                        follows_add |-> FollowsAdd(entry)]
        /\ CbfConfigUnchanged

Contains(entry) ==
    /\ cbf_last' = [op |-> "contains", entry |-> entry,
                    ret |-> cbf_contains(entry), val |-> 0,
                    follows_add |-> FollowsAdd(entry)]
    /\ old_bins' = counter_bins
    /\ UNCHANGED counter_bins
    /\ CbfConfigUnchanged

Estimate(entry) ==
    /\ cbf_last' = [op |-> "estimate", entry |-> entry,
                    ret |-> TRUE, val |-> cbf_estimate(entry),
                    follows_add |-> FollowsAdd(entry)]
    /\ old_bins' = counter_bins
    /\ UNCHANGED counter_bins
    /\ CbfConfigUnchanged

NextBloom ==
    \/ \E entry \in Entries : Add(entry) /\ UNCHANGED run
    \/ \E entry \in Entries : Remove(entry) /\ UNCHANGED run
    \/ \E entry \in Entries : Contains(entry) /\ UNCHANGED run
    \/ \E entry \in Entries : Estimate(entry) /\ UNCHANGED run

BloomSpec == InitBloom /\ [][NextBloom]_vars

\* The same filter used with one entry only: run.entry is any entry, fixed at
\* construction, and every call is made with it.  While the calls so far are
\* add(x)^n followed by remove(x)^m, run.adds is n and run.rems the number of
\* those removes that returned true; the count is given up (off) at an add
\* after a remove, and past n = counter_max + MaxExtra.
RunAfterAdd ==
    IF run.phase = "adding" /\ run.adds < counter_max + MaxExtra
    THEN [run EXCEPT !.adds = @ + 1]
    ELSE [run EXCEPT !.phase = "off", !.adds = 0, !.rems = 0]

RunAfterRemove(ret) ==
    IF run.phase \in {"adding", "removing"}
    THEN [run EXCEPT !.phase = "removing", !.rems = IF ret THEN @ + 1 ELSE @]
    ELSE run

InitRun ==
    /\ CbfConstructed
    /\ \E entry \in Entries :
          run = [phase |-> "adding", entry |-> entry, adds |-> 0, rems |-> 0]

RunAdd == Add(run.entry) /\ run' = RunAfterAdd

RunRemove == Remove(run.entry) /\ run' = RunAfterRemove(cbf_last'.ret)

RunContains == Contains(run.entry) /\ UNCHANGED run

RunEstimate == Estimate(run.entry) /\ UNCHANGED run

NextRun ==
    \/ RunAdd
    \/ RunRemove
    \/ RunContains
    \/ RunEstimate

BloomRunSpec == InitRun /\ [][NextRun]_vars

\* The constructor alone: with_bits_per_counter is called once, with any
\* arguments, and cbf_last keeps the arguments and the kind of the result.  The
\* fields are those of the filter if there is one.
InitConstruct == CbfAbsent /\ CfAbsent

Construct(num_counters, num_hashes, bits) ==
    LET f == with_bits_per_counter(num_counters, num_hashes, bits)
    IN  /\ cbf_last.op = "none"
        /\ cbf_last' = [op |-> "with_bits_per_counter", num_counters |-> num_counters,
                        num_hashes |-> num_hashes, bits |-> bits, kind |-> f.kind]
        /\ IF f.kind = "Ok"
           THEN /\ counter_bins' = f.counter_bins
                /\ counter_max' = f.counter_max
                /\ counters_per_bin' = f.counters_per_bin
                /\ bits_per_counter' = f.bits_per_counter
                /\ n_hashes' = f.n_hashes
           ELSE UNCHANGED <<counter_bins, counter_max, counters_per_bin,
                            bits_per_counter, n_hashes>>
        /\ UNCHANGED <<old_bins, run, cf_vars>>

NextConstruct ==
    \E num_counters \in 0 .. MaxCounters, num_hashes \in 0 .. MaxHashes,
       bits \in 0 .. (USIZE_BITS + 1) :
        Construct(num_counters, num_hashes, bits)

ConstructSpec == InitConstruct /\ [][NextConstruct]_vars

\* ------------------------------------------------- counting bloom claims
\* every counter slot of an array, read as the code reads one
Slots == 0 .. (counters_per_bin - 1)
SlotValue(array, b, slot) ==
    Shr(BitAnd(Shl(counter_max, slot * bits_per_counter), array[b]),
        slot * bits_per_counter)

\* the counter of the array `array` that digest number seed of entry addresses
SlotOfDigest(array, entry, seed) ==
    LET o == offsets(Hash(entry, seed))
    IN  Shr(BitAnd(o.counter_mask, array[o.bin]), o.bitshift)

SameCounter(entry, s, t) ==
    LET a == offsets(Hash(entry, s))
        b == offsets(Hash(entry, t))
    IN  a.bin = b.bin /\ a.bitshift = b.bitshift

\* the k counters of an entry are k different counters of the array
DistinctCounters(entry) ==
    \A s, t \in Seeds : s # t => ~SameCounter(entry, s, t)

\* how many earlier digests of entry address the counter of digest number s
EarlierHits(entry, s) ==
    Cardinality({t \in Seeds : t < s /\ SameCounter(entry, s, t)})

AllZero(array) == \A b \in DOMAIN array : array[b] = 0

\* C1: every word stays a machine word and every packed counter lies in
\* 0 .. counter_max; an add lowers no counter (none wraps past counter_max
\* to 0) and a remove raises none (none wraps below 0).
C1_CountersInRange ==
    /\ \A b \in DOMAIN counter_bins :
         /\ counter_bins[b] \in Words
         /\ \A slot \in Slots : SlotValue(counter_bins, b, slot) \in 0 .. counter_max
    /\ cbf_last.op = "add" =>
         \A b \in DOMAIN counter_bins : \A slot \in Slots :
            SlotValue(counter_bins, b, slot) >= SlotValue(old_bins, b, slot)
    /\ cbf_last.op = "remove" =>
         \A b \in DOMAIN counter_bins : \A slot \in Slots :
            SlotValue(counter_bins, b, slot) <= SlotValue(old_bins, b, slot)

\* an add was refused on a saturated counter while another counter sat below it
C1_Witness ==
    /\ cbf_last.op = "add" /\ ~cbf_last.ret
    /\ counters_per_bin > 1 /\ bits_per_counter > 1
    /\ \E b \in DOMAIN counter_bins : \E s1, s2 \in Slots :
          /\ SlotValue(counter_bins, b, s1) = counter_max
          /\ SlotValue(counter_bins, b, s2) = 0

\* C4: an add that returns false leaves the whole array as it was, and add
\* returns false exactly when some digest finds its counter, raised by the
\* increments already staged for it in this call, equal to counter_max.
C4_AddAllOrNothing ==
    cbf_last.op = "add" =>
        /\ ~cbf_last.ret => counter_bins = old_bins
        /\ ~cbf_last.ret <=>
             \E s \in Seeds :
                SlotOfDigest(old_bins, cbf_last.entry, s)
                    + EarlierHits(cbf_last.entry, s) = counter_max

\* a refused add whose first digest had already been staged on another counter
C4_Witness ==
    /\ cbf_last.op = "add" /\ ~cbf_last.ret
    /\ n_hashes = 2
    /\ ~SameCounter(cbf_last.entry, 0, 1)
    /\ SlotOfDigest(old_bins, cbf_last.entry, 0) < counter_max
    /\ SlotOfDigest(old_bins, cbf_last.entry, 1) = counter_max
    /\ counter_bins = old_bins

\* C5: if one of the k counters of x is 0, remove(x) returns false and the
\* array is unchanged.
C5_RemoveAbsent ==
    (/\ cbf_last.op = "remove"
     /\ \E s \in Seeds : SlotOfDigest(old_bins, cbf_last.entry, s) = 0)
    => (~cbf_last.ret /\ counter_bins = old_bins)

\* a remove refused on a zero counter after its first digest found a counter
\* that another entry had raised
C5_Witness ==
    /\ cbf_last.op = "remove" /\ ~cbf_last.ret
    /\ n_hashes = 2
    /\ SlotOfDigest(old_bins, cbf_last.entry, 0) > 0
    /\ SlotOfDigest(old_bins, cbf_last.entry, 1) = 0
    /\ counter_bins = old_bins

\* C6 as claimed: contains(x) right after any add(x) call is true.
C6_ContainsAfterAnyAdd ==
    cbf_last.op = "add" => cbf_contains(cbf_last.entry)

\* C6 amended: contains(x) right after an add(x) that returned true is true.
C6_ContainsAfterAdd ==
    (cbf_last.op = "add" /\ cbf_last.ret) => cbf_contains(cbf_last.entry)

\* a successful add with one-bit counters, whose two digests lie in two words
C6_Witness ==
    /\ cbf_last.op = "add" /\ cbf_last.ret
    /\ bits_per_counter = 1 /\ n_hashes = 2
    /\ offsets(Hash(cbf_last.entry, 0)).bin # offsets(Hash(cbf_last.entry, 1)).bin
    /\ cbf_contains(cbf_last.entry)

\* C7: a remove(x) that follows an add(x) which returned true returns true
\* and gives back the array as it was before the add.
C7_AddRemoveRoundTrip ==
    [][(/\ cbf_last.op = "add" /\ cbf_last.ret
        /\ cbf_last'.op = "remove" /\ cbf_last'.entry = cbf_last.entry)
       => (cbf_last'.ret /\ counter_bins' = old_bins)]_vars

\* a remove(x) right after a successful add(x), both digests of x on one
\* counter, on a filter that holds other entries as well
C7_Witness ==
    /\ cbf_last.op = "remove" /\ cbf_last.follows_add /\ cbf_last.ret
    /\ n_hashes = 2 /\ SameCounter(cbf_last.entry, 0, 1)
    /\ old_bins # counter_bins
    /\ ~AllZero(counter_bins)

Min(a, b) == IF a < b THEN a ELSE b

\* C8 as claimed: on a filter used with x only, after n calls add(x) and then
\* m calls remove(x) that returned true, estimate(x) = min(n, counter_max) - m
\* (0 on the empty filter).
C8_EstimateAnyEntry ==
    /\ AllZero(counter_bins) => \A e \in Entries : cbf_estimate(e) = 0
    /\ run.phase \in {"adding", "removing"} =>
          cbf_estimate(run.entry) = Min(run.adds, counter_max) - run.rems

\* C8 amended: the same, for an x whose k digests address k different counters.
C8_Estimate ==
    /\ AllZero(counter_bins) => \A e \in Entries : cbf_estimate(e) = 0
    /\ (run.phase \in {"adding", "removing"} /\ DistinctCounters(run.entry)) =>
          cbf_estimate(run.entry) = Min(run.adds, counter_max) - run.rems

\* more adds than counter_max, then some but not all of them removed
C8_Witness ==
    /\ run.phase = "removing" /\ DistinctCounters(run.entry)
    /\ n_hashes = 2 /\ counter_max > 1
    /\ run.adds > counter_max
    /\ run.rems > 0 /\ run.rems < counter_max
    /\ cbf_estimate(run.entry) = counter_max - run.rems

NonZeroWords == Cardinality({b \in DOMAIN counter_bins : counter_bins[b] # 0})

\* C9 as claimed: in a run add(x)^n on the new filter the n-th call returns
\* true exactly when n <= counter_max, a call that returns false changes
\* nothing, and at most n_hashes words are nonzero.
C9_SaturationAnyEntry ==
    (run.phase = "adding" /\ cbf_last.op = "add") =>
        /\ cbf_last.ret <=> run.adds <= counter_max
        /\ ~cbf_last.ret => counter_bins = old_bins
        /\ NonZeroWords <= n_hashes

\* C9 amended: the same, for an x whose k digests address k different counters.
C9_Saturation ==
    (run.phase = "adding" /\ cbf_last.op = "add" /\ DistinctCounters(run.entry)) =>
        /\ cbf_last.ret <=> run.adds <= counter_max
        /\ ~cbf_last.ret => counter_bins = old_bins
        /\ NonZeroWords <= n_hashes

\* the second refused call of a run, on counters wider than one bit
C9_Witness ==
    /\ run.phase = "adding" /\ cbf_last.op = "add" /\ DistinctCounters(run.entry)
    /\ n_hashes = 2 /\ counter_max > 1
    /\ run.adds = counter_max + 2
    /\ ~cbf_last.ret
    /\ NonZeroWords >= 1

\* C18: every counter of the array, word b and slot `slot`, is addressed by
\* some hash value: offsets gives bin = b and bitshift = slot * bits_per_counter.
\* The pair (hash % bins, hash % counters_per_bin) repeats with HashPeriod.
C18_IndexCoverage ==
    \A b \in DOMAIN counter_bins : \A slot \in Slots :
        \E hash \in 0 .. (HashPeriod - 1) :
            /\ offsets(hash).bin = b
            /\ offsets(hash).bitshift = slot * bits_per_counter

\* digest number s of entry addresses the counter in word b, slot `slot`
Addresses(entry, s, b, slot) ==
    LET o == offsets(Hash(entry, s))
    IN  o.bin = b /\ o.bitshift = slot * bits_per_counter

\* how many digests of entry address that counter
Hits(entry, b, slot) ==
    Cardinality({s \in Seeds : Addresses(entry, s, b, slot)})

\* C20 as claimed: an add(x) that returns true leaves every counter addressed
\* by a digest of x one higher, a remove(x) that returns true one lower, and
\* every other counter as it was.
C20_UpdateByOne ==
    (cbf_last.op \in {"add", "remove"} /\ cbf_last.ret) =>
        \A b \in DOMAIN counter_bins : \A slot \in Slots :
            SlotValue(counter_bins, b, slot) =
                SlotValue(old_bins, b, slot)
                + (IF Hits(cbf_last.entry, b, slot) = 0 THEN 0
                   ELSE IF cbf_last.op = "add" THEN 1 ELSE -1)

\* C20 amended: the counter changes by the number of digests of x that
\* address it, which is one when the digests of x address different counters.
C20_UpdateByHits ==
    (cbf_last.op \in {"add", "remove"} /\ cbf_last.ret) =>
        \A b \in DOMAIN counter_bins : \A slot \in Slots :
            SlotValue(counter_bins, b, slot) =
                SlotValue(old_bins, b, slot)
                + (IF cbf_last.op = "add" THEN Hits(cbf_last.entry, b, slot)
                   ELSE 0 - Hits(cbf_last.entry, b, slot))

\* a remove whose two digests address two counters of one word, in which a
\* third counter, raised by another entry, stays as it was
C20_Witness ==
    /\ cbf_last.op = "remove" /\ cbf_last.ret /\ n_hashes = 2
    /\ LET o0 == offsets(Hash(cbf_last.entry, 0))
           o1 == offsets(Hash(cbf_last.entry, 1))
       IN  /\ o0.bin = o1.bin /\ o0.bitshift # o1.bitshift
           /\ \E slot \in Slots :
                 /\ Hits(cbf_last.entry, o0.bin, slot) = 0
                 /\ SlotValue(old_bins, o0.bin, slot) > 0
                 /\ SlotValue(counter_bins, o0.bin, slot) = SlotValue(old_bins, o0.bin, slot)

\* C21: remove(x) returns true, and decrements, exactly when contains(x) was
\* true right before the call (every counter of x above 0 in the array as it
\* was), and returns false, changing nothing, exactly when it was false.
C21_RemoveIffContains ==
    cbf_last.op = "remove" =>
        LET contained == \A s \in Seeds : SlotOfDigest(old_bins, cbf_last.entry, s) > 0
        IN  /\ cbf_last.ret <=> contained
            /\ cbf_last.ret => counter_bins # old_bins
            /\ ~cbf_last.ret => counter_bins = old_bins

\* b divides a
Divides(b, a) == \E k \in 0 .. a : k * b = a

Constructing == cbf_last.op = "with_bits_per_counter"

\* C15: the constructor reports the first rule violated, in the order
\* bits_per_counter > word width, word width not divisible by bits_per_counter,
\* num_counters = 0, num_hashes = 0 or > num_counters, and succeeds otherwise;
\* num_counters = 0 with num_hashes = 0 gives InvalidBinCount.
C15_ValidationOrder ==
    Constructing =>
        /\ cbf_last.kind =
              IF cbf_last.bits > USIZE_BITS THEN "BitsPerCounterTooLarge"
              ELSE IF ~Divides(cbf_last.bits, USIZE_BITS) THEN "BitsPerCounterUnaligned"
              ELSE IF cbf_last.num_counters = 0 THEN "InvalidBinCount"
              ELSE IF cbf_last.num_hashes = 0
                      \/ cbf_last.num_hashes > cbf_last.num_counters
                   THEN "InvalidHashCount"
              ELSE "Ok"
        /\ (/\ Divides(cbf_last.bits, USIZE_BITS)
            /\ cbf_last.num_counters = 0 /\ cbf_last.num_hashes = 0)
           => cbf_last.kind = "InvalidBinCount"

\* C16: the constructor returns a filter or one of the four errors, whatever
\* its arguments.
C16_NeverPanics ==
    Constructing =>
        cbf_last.kind \in {"Ok", "BitsPerCounterTooLarge", "BitsPerCounterUnaligned",
                           "InvalidBinCount", "InvalidHashCount"}

\* C17: with bits_per_counter a divisor of the word width, num_counters > 0
\* and 0 < num_hashes <= num_counters, the constructor succeeds; counter_max
\* is 2^bits_per_counter - 1, a machine word, all ones at full width; the
\* array has ceil(num_counters / counters_per_bin) words, all zero, which
\* hold at least num_counters counters.
C17_Construction ==
    (/\ Constructing
     /\ cbf_last.bits >= 1 /\ Divides(cbf_last.bits, USIZE_BITS)
     /\ cbf_last.num_counters > 0
     /\ cbf_last.num_hashes > 0 /\ cbf_last.num_hashes <= cbf_last.num_counters)
    => /\ cbf_last.kind = "Ok"
       /\ counter_max = Pow2(cbf_last.bits) - 1
       /\ counter_max \in Words
       /\ cbf_last.bits = USIZE_BITS => counter_max = WordMod - 1
       /\ counters_per_bin * cbf_last.bits = USIZE_BITS
       /\ NumBins * counters_per_bin >= cbf_last.num_counters
       /\ (NumBins - 1) * counters_per_bin < cbf_last.num_counters
       /\ DOMAIN counter_bins = 0 .. (NumBins - 1)
       /\ AllZero(counter_bins)

\* a filter of several full-width counters
C17_Witness ==
    /\ Constructing /\ cbf_last.kind = "Ok"
    /\ cbf_last.bits = USIZE_BITS /\ counter_max = WordMod - 1
    /\ NumBins = cbf_last.num_counters /\ NumBins > 1

\* ------------------------------------------------------------ cuckoo filter
RECURSIVE XorFrom(_, _)
XorFrom(a, b) ==
    IF a = 0 THEN b
    ELSE IF b = 0 THEN a
    ELSE (((a % 2) + (b % 2)) % 2) + 2 * XorFrom(a \div 2, b \div 2)

\* the bit-by-bit results, tabulated once for the bin indices and raw hashes
XorTable ==
    [a \in 0 .. MaxBinCount |-> [b \in 0 .. CfHashBound |-> XorFrom(a, b)]]

\* a ^ b
BitXor(a, b) == XorTable[a][b]

Fingerprints == 0 .. (MaxFp - 1)
CfHashVals == 0 .. (CfHashBound - 1)
BinCount == Len(bins)
BinIndices == 0 .. (BinCount - 1)

\* a key is given by its fingerprint and its hash: Self::fingerprint(bytes)
\* and Self::hash(bytes).  The hash of a key is read only through
\* hash % bins.len(), so the hashes below bins.len() give every primary index.
KeyHashesOf(num_bins) ==
    0 .. ((IF num_bins = 0 THEN 1
           ELSE IF num_bins < CfHashBound THEN num_bins ELSE CfHashBound) - 1)
KeysOf(num_bins) == [fp : Fingerprints, h : KeyHashesOf(num_bins)]
Keys == KeysOf(BinCount)

\* Vec indices start at 0, sequence indices at 1
BinAt(table, i) == table[i + 1]
WithBin(table, i, bin) == [table EXCEPT ![i + 1] = bin]

with_all_the_levers(num_bins, entries_per_bin, kicks) ==
    [bins |-> [i \in 1 .. num_bins |-> <<>>],
     capacity |-> entries_per_bin,
     max_kicks |-> kicks]

\* mutant: the elements from idx on are dropped, as Vec::truncate(idx) does
swap_remove_truncate(bin, idx) == SubSeq(bin, 1, idx)

\* Vec::swap_remove(idx): the last element takes the place of the removed one
swap_remove(bin, idx) ==
    IF idx = Len(bin) - 1 THEN SubSeq(bin, 1, Len(bin) - 1)
    ELSE [SubSeq(bin, 1, Len(bin) - 1) EXCEPT ![idx + 1] = bin[Len(bin)]]

\* bin.iter().position(|v| *v == fingerprint): the first index, or -1 for None
position(bin, fingerprint) ==
    IF \E k \in 1 .. Len(bin) : bin[k] = fingerprint
    THEN (CHOOSE k \in 1 .. Len(bin) :
             /\ bin[k] = fingerprint
             /\ \A j \in 1 .. (k - 1) : bin[j] # fingerprint) - 1
    ELSE -1

\* Self::hash(entry) as usize % self.bins.len()
PrimaryIndex(key) == key.h % BinCount

\* mutant: the index is not moved to the other bin
AltIndex_same(i, fingerprint) == i

\* (i ^ Self::hash(&fingerprint.to_ne_bytes()) as usize) % self.bins.len()
AltIndex(i, fingerprint) == BitXor(i, fp_hash[fingerprint]) % BinCount

\* mutant: a bin is never taken to be full
HasRoom_always(bin) == TRUE

\* if bin.len() < bin.capacity()
HasRoom(bin) == Len(bin) < capacity

Outcome(ret, table) == [ret |-> ret, bins |-> table, panic |-> FALSE]
Panic(table) == [ret |-> FALSE, bins |-> table, panic |-> TRUE]

\* what the loop gives up with once max_kicks attempts are used
GiveUp(table, fingerprint) == Outcome(FALSE, table)

\* the loop of add from attempt number `attempt` on, holding `fingerprint`
\* for bin i: the set of outcomes over the random choices of kick_idx.
\* next_u32() as usize % bin.len() divides by zero on an empty full bin.
RECURSIVE AddLoopFrom(_, _, _, _)
AddLoopFrom(table, fingerprint, i, attempt) ==
    IF attempt = max_kicks THEN {GiveUp(table, fingerprint)}
    ELSE LET bin == BinAt(table, i)
         IN  IF HasRoom(bin)
             THEN {Outcome(TRUE, WithBin(table, i, Append(bin, fingerprint)))}
             ELSE IF attempt # 0
             THEN IF Len(bin) = 0 THEN {Panic(table)}
                  ELSE UNION {
                         LET kicked == bin[kick_idx + 1]
                             table2 == WithBin(table, i,
                                          Append(swap_remove(bin, kick_idx), fingerprint))
                         IN  AddLoopFrom(table2, kicked, AltIndex(i, kicked), attempt + 1)
                         : kick_idx \in 0 .. (Len(bin) - 1) }
             ELSE AddLoopFrom(table, fingerprint, AltIndex(i, fingerprint), attempt + 1)

\* the outcomes of add; % self.bins.len() divides by zero on a table of no bins
cf_add(key) ==
    IF BinCount = 0 THEN {Panic(bins)}
    ELSE AddLoopFrom(bins, key.fp, PrimaryIndex(key), 0)

RemoveFrom(table, i, fingerprint) ==
    WithBin(table, i, swap_remove(BinAt(table, i), position(BinAt(table, i), fingerprint)))

cf_remove(key) ==
    IF BinCount = 0 THEN Panic(bins)
    ELSE LET i1 == PrimaryIndex(key)
             i2 == AltIndex(i1, key.fp)
         IN  IF position(BinAt(bins, i1), key.fp) >= 0
             THEN Outcome(TRUE, RemoveFrom(bins, i1, key.fp))
             ELSE IF position(BinAt(bins, i2), key.fp) >= 0
             THEN Outcome(TRUE, RemoveFrom(bins, i2, key.fp))
             ELSE Outcome(FALSE, bins)

\* !bin.is_empty() && bin.contains(&fingerprint)
BinHolds(bin, fingerprint) ==
    Len(bin) # 0 /\ \E k \in 1 .. Len(bin) : bin[k] = fingerprint

ContainsIn(table, key) ==
    LET i1 == PrimaryIndex(key)
    IN  \/ BinHolds(BinAt(table, i1), key.fp)
        \/ BinHolds(BinAt(table, AltIndex(i1, key.fp)), key.fp)

cf_contains(key) ==
    IF BinCount = 0 THEN Panic(bins)
    ELSE Outcome(ContainsIn(bins, key), bins)

\* ---------------------------------------------------------- cuckoo actions
NoKey == [fp |-> 0, h |-> 0]
NoWatch == [void |-> TRUE, key |-> NoKey, net |-> 0]

\* the filter after construction; fp_hash is any hash of the fingerprints
Constructed ==
    \E num_bins \in 0 .. MaxBinCount, entries_per_bin \in 0 .. MaxEntries,
       kicks \in 0 .. MaxKicks :
        LET f == with_all_the_levers(num_bins, entries_per_bin, kicks)
        IN  /\ num_bins * entries_per_bin <= MaxSlots
            /\ bins = f.bins
            /\ capacity = f.capacity
            /\ max_kicks = f.max_kicks
            /\ fp_hash \in [Fingerprints -> CfHashVals]
            /\ cf_last = [op |-> "new", key |-> NoKey, ret |-> TRUE, panic |-> FALSE]
            /\ cf_old = f.bins
            /\ CbfAbsent

InitCuckoo == Constructed /\ watch = NoWatch

CfConfigUnchanged == UNCHANGED <<capacity, max_kicks, fp_hash, cbf_vars>>

\* a panic ends the program
CfRunning == ~cf_last.panic

CfAdd(key) ==
    /\ CfRunning
    /\ \E r \in cf_add(key) :
        /\ bins' = r.bins
        /\ cf_old' = bins
        /\ cf_last' = [op |-> "add", key |-> key, ret |-> r.ret, panic |-> r.panic]
    /\ CfConfigUnchanged

CfRemove(key) ==
    /\ CfRunning
    /\ LET r == cf_remove(key)
       IN  /\ bins' = r.bins
           /\ cf_old' = bins
           /\ cf_last' = [op |-> "remove", key |-> key, ret |-> r.ret, panic |-> r.panic]
    /\ CfConfigUnchanged

CfContains(key) ==
    /\ CfRunning
    /\ LET r == cf_contains(key)
       IN  cf_last' = [op |-> "contains", key |-> key, ret |-> r.ret, panic |-> r.panic]
    /\ cf_old' = bins
    /\ UNCHANGED bins
    /\ CfConfigUnchanged

NextCuckoo ==
    \/ \E key \in Keys : CfAdd(key) /\ UNCHANGED watch
    \/ \E key \in Keys : CfRemove(key) /\ UNCHANGED watch
    \/ \E key \in Keys : CfContains(key) /\ UNCHANGED watch

CuckooSpec == InitCuckoo /\ [][NextCuckoo]_vars

\* The same filter with one key watched: the key is any key, fixed at
\* construction, and watch.net is the number of its add calls that returned
\* true less the number of its remove calls that returned true.  The count is
\* given up (void) once a remove of another key returns true, or once the
\* watched key is removed more often than it was added.
WatchAfterAdd(key, ret) ==
    IF ~watch.void /\ key = watch.key /\ ret
    THEN [watch EXCEPT !.net = @ + 1]
    ELSE watch

WatchAfterRemove(key, ret) ==
    IF watch.void \/ ~ret THEN watch
    ELSE IF key = watch.key /\ watch.net > 0
    THEN [watch EXCEPT !.net = @ - 1]
    ELSE NoWatch

InitWatch ==
    /\ Constructed
    /\ \E key \in Keys : watch = [void |-> FALSE, key |-> key, net |-> 0]

WatchedAdd(key) ==
    CfAdd(key) /\ watch' = WatchAfterAdd(key, cf_last'.ret)

WatchedRemove(key) ==
    CfRemove(key) /\ watch' = WatchAfterRemove(key, cf_last'.ret)

WatchedContains(key) ==
    CfContains(key) /\ UNCHANGED watch

NextWatch ==
    \/ \E key \in Keys : WatchedAdd(key)
    \/ \E key \in Keys : WatchedRemove(key)
    \/ \E key \in Keys : WatchedContains(key)

CuckooWatchSpec == InitWatch /\ [][NextWatch]_vars

\* The fill test: keys are added to the new filter, and once adding is over the
\* keys that were added are removed, one remove for each add, in any order.
\* watch.added counts the add calls of each key, all of which returned true,
\* watch.left the removes still to come and watch.removes the removes made.
\* The test is over at the first call that returns false.
NoneOf(num_bins) == [key \in KeysOf(num_bins) |-> 0]

InitFill ==
    /\ Constructed
    /\ watch = [phase |-> "adding", added |-> NoneOf(BinCount),
                left |-> NoneOf(BinCount), removes |-> 0]

FillOver == [watch EXCEPT !.phase = "over"]

FillAdd(key) ==
    /\ watch.phase = "adding"
    /\ CfAdd(key)
    /\ watch' = IF cf_last'.ret
                THEN [watch EXCEPT !.added[key] = @ + 1, !.left[key] = @ + 1]
                ELSE FillOver

FillRemove(key) ==
    /\ watch.phase \in {"adding", "removing"}
    /\ watch.left[key] > 0
    /\ CfRemove(key)
    /\ watch' = IF cf_last'.ret
                THEN [watch EXCEPT !.phase = "removing", !.left[key] = @ - 1,
                                   !.removes = @ + 1]
                ELSE FillOver

FillContains(key) ==
    CfContains(key) /\ UNCHANGED watch

NextFill ==
    \/ \E key \in Keys : FillAdd(key)
    \/ \E key \in Keys : FillRemove(key)
    \/ \E key \in Keys : FillContains(key)

CuckooFillSpec == InitFill /\ [][NextFill]_vars

\* ------------------------------------------------------------ cuckoo claims
CopiesIn(bin, fingerprint) ==
    Cardinality({k \in 1 .. Len(bin) : bin[k] = fingerprint})

RECURSIVE CopiesUpTo(_, _, _)
CopiesUpTo(table, fingerprint, n) ==
    IF n = 0 THEN 0
    ELSE CopiesIn(table[n], fingerprint) + CopiesUpTo(table, fingerprint, n - 1)

\* how often a fingerprint is stored in the whole table
Copies(table, fingerprint) == CopiesUpTo(table, fingerprint, Len(table))

RECURSIVE StoredUpTo(_, _)
StoredUpTo(table, n) ==
    IF n = 0 THEN 0 ELSE Len(table[n]) + StoredUpTo(table, n - 1)

\* total number of stored fingerprints
Stored(table) == StoredUpTo(table, Len(table))

\* C2: every bin holds at most entries_per_bin fingerprints, and the table
\* at most bin_count * entries_per_bin.
C2_BinsWithinCapacity ==
    /\ \A i \in BinIndices : Len(BinAt(bins, i)) <= capacity
    /\ Stored(bins) <= BinCount * capacity

\* an add that evicted and then gave up, on a table whose bins are all full
C2_Witness ==
    /\ cf_last.op = "add" /\ ~cf_last.ret /\ ~cf_last.panic
    /\ bins # cf_old
    /\ BinCount > 1 /\ capacity > 1
    /\ \A i \in BinIndices : Len(BinAt(bins, i)) = capacity

\* C3: a key with more successful adds than successful removes, while no
\* other key has been removed, is contained; in particular a key is
\* contained right after an add of it that returned true.
C3_NoFalseNegatives ==
    /\ (~watch.void /\ watch.net > 0) => ContainsIn(bins, watch.key)
    /\ (cf_last.op = "add" /\ cf_last.ret) => ContainsIn(bins, cf_last.key)

\* C10: an add that returns false leaves every bin within its capacity and
\* the same fingerprints, each as often as before, in the table.
C10_FailedAddKeepsFingerprints ==
    (cf_last.op = "add" /\ ~cf_last.ret /\ ~cf_last.panic) =>
        /\ \A i \in BinIndices : Len(BinAt(bins, i)) <= capacity
        /\ \A f \in Fingerprints : Copies(bins, f) = Copies(cf_old, f)

\* the table differs from `before` by one copy of fingerprint less in bin i:
\* every bin holds every fingerprint as often as before, but for that copy
OneCopyLess(before, i, fingerprint) ==
    \A j \in BinIndices : \A f \in Fingerprints :
        CopiesIn(BinAt(bins, j), f) =
            CopiesIn(BinAt(before, j), f) - (IF j = i /\ f = fingerprint THEN 1 ELSE 0)

\* C11: on a filter that has bins, remove(x) takes one copy of fingerprint(x)
\* out of bin i1 if i1 holds one, else one copy out of bin i2 if i2 holds one,
\* and returns true; else it returns false and the table is unchanged.  A
\* remove that returns true lowers the total by one and leaves every other
\* bin with the same fingerprints, each as often as before.
C11_Remove ==
    (cf_last.op = "remove" /\ BinCount > 0) =>
        LET fp == cf_last.key.fp
            i1 == cf_last.key.h % BinCount
            i2 == BitXor(i1, fp_hash[fp]) % BinCount
        IN  /\ IF CopiesIn(BinAt(cf_old, i1), fp) > 0
               THEN cf_last.ret /\ OneCopyLess(cf_old, i1, fp)
               ELSE IF CopiesIn(BinAt(cf_old, i2), fp) > 0
               THEN cf_last.ret /\ OneCopyLess(cf_old, i2, fp)
               ELSE ~cf_last.ret /\ bins = cf_old
            /\ cf_last.ret => Stored(bins) = Stored(cf_old) - 1
            /\ ~cf_last.panic

\* a remove that found the fingerprint only in bin i2, first of two there, so
\* that the other fingerprint of the bin was moved into its place
C11_Witness ==
    /\ cf_last.op = "remove" /\ cf_last.ret /\ BinCount > 1
    /\ LET fp == cf_last.key.fp
           i1 == cf_last.key.h % BinCount
           i2 == BitXor(i1, fp_hash[fp]) % BinCount
       IN  /\ i1 # i2
           /\ CopiesIn(BinAt(cf_old, i1), fp) = 0
           /\ Len(BinAt(cf_old, i1)) > 0
           /\ Len(BinAt(cf_old, i2)) = 2
           /\ BinAt(cf_old, i2)[1] = fp
           /\ BinAt(cf_old, i2)[2] # fp
           /\ BinAt(bins, i2) = <<BinAt(cf_old, i2)[2]>>

\* C12: every add that returns true raises the number of stored fingerprints
\* by one; once add(x) has returned true twice the table holds two copies of
\* fingerprint(x); and after one remove(x) then, contains(x) is still true.
C12_NoDeduplication ==
    /\ (cf_last.op = "add" /\ cf_last.ret) => Stored(bins) = Stored(cf_old) + 1
    /\ \A x \in Keys :
          (watch.phase = "adding" /\ watch.added[x] >= 2) => Copies(bins, x.fp) >= 2
    /\ \A x \in Keys :
          (/\ watch.phase = "removing" /\ watch.removes = 1
           /\ watch.added[x] >= 2 /\ watch.left[x] = watch.added[x] - 1)
          => ContainsIn(bins, x)

\* C14: after adds to the new filter that all returned true, every remove of
\* a key that was added, one for each of its adds, returns true, and once
\* each has been removed the table is empty.
C14_InsertAllRemoveAll ==
    /\ cf_last.op = "remove" => cf_last.ret
    /\ (/\ watch.phase = "removing"
        /\ \A x \in Keys : watch.left[x] = 0) => Stored(bins) = 0

\* C13 as claimed: an add returns true whenever the table held fewer than
\* bin_count * entries_per_bin fingerprints before the call.
C13_FillsToCapacity ==
    (cf_last.op = "add" /\ Stored(cf_old) < BinCount * capacity) => cf_last.ret

\* C13 amended: an add returns true whenever max_kicks >= 1 and the key's
\* primary bin held fewer than entries_per_bin fingerprints before the call,
\* or max_kicks >= 2 and its alternate bin did.
C13_AddWithRoom ==
    (cf_last.op = "add" /\ BinCount > 0) =>
        LET fp == cf_last.key.fp
            i1 == cf_last.key.h % BinCount
            i2 == BitXor(i1, fp_hash[fp]) % BinCount
        IN  (\/ max_kicks >= 1 /\ Len(BinAt(cf_old, i1)) < capacity
             \/ max_kicks >= 2 /\ Len(BinAt(cf_old, i2)) < capacity)
            => (cf_last.ret /\ ~cf_last.panic)

\* an add that found its primary bin full and stored the fingerprint in the
\* alternate bin, on a table that still has room after it
C13_Witness ==
    /\ cf_last.op = "add" /\ cf_last.ret /\ BinCount > 1
    /\ LET fp == cf_last.key.fp
           i1 == cf_last.key.h % BinCount
           i2 == BitXor(i1, fp_hash[fp]) % BinCount
       IN  /\ i1 # i2
           /\ Len(BinAt(cf_old, i1)) = capacity
           /\ BinAt(bins, i2) = Append(BinAt(cf_old, i2), fp)
           /\ Stored(bins) < BinCount * capacity

\* C19: going to the alternate index twice, with the same fingerprint, leads
\* back: alt(alt(i, f), f) = i for every bin index i and fingerprint f.
C19_AltIndexInvolution ==
    \A i \in BinIndices : \A f \in Fingerprints :
        AltIndex(AltIndex(i, f), f) = i

\* C22: on every filter the constructor gives, bin_count = 0 and
\* entries_per_bin = 0 included, add, remove and contains end with a boolean
\* result, never with a panic.
C22_CallsComplete ==
    cf_last.op \in {"add", "remove", "contains"} =>
        (~cf_last.panic /\ cf_last.ret \in BOOLEAN)

====
